---------------------------- MODULE Spec2Model ----------------------------
(***************************************************************************)
(* breakc.py: read a file of IPv4 addresses, sort them by 32-bit value and *)
(* fill the gaps of at most 6 between neighbours of one /24.               *)
(*                                                                         *)
(* A Python str is a sequence of one-character strings.  A Python int is   *)
(* an integer.  The conversions (split, join, strip, isdigit, int, str,    *)
(* the shifts and masks) are computed character by character and digit by  *)
(* digit, as the interpreter computes them.                                *)
(***************************************************************************)
EXTENDS Integers, Sequences, FiniteSets, TLC

VARIABLES
    pc,           \* position of main(): open, read, check, sort, fill, write, refilled, done, or a conv_* position
    input_file,   \* args.list: [status, lines]
    output_file,  \* args.output: "none" (stdout), "ok" (writable path), "unwritable"
    lineno,       \* read_ip_file: index of the next line of the file
    ips,          \* read_ip_file: the list being built
    warnings,     \* number of warning lines sent to stderr
    ip_list,      \* main: the list read_ip_file returned
    sorted_ips,   \* main: the list sort_ips returned
    result,       \* main: the list process_ips returned
    again,        \* process_ips applied to result
    written,      \* the address lines written to the output file or to stdout
    count,        \* the number in the final count line, -1 while not printed
    exit_code,    \* the process exit status, -1 while running
    exit_at,      \* the function that ended the process: none, reader, main, writer
    stages,       \* the pipeline stages entered, in order
    conv_in,      \* conversion round trip: the input (a str or an int)
    conv_mid,     \* conversion round trip: the intermediate value
    conv_out      \* conversion round trip: the value converted back

vars == <<pc, input_file, output_file, lineno, ips, warnings, ip_list, sorted_ips, result, again, written, count, exit_code, exit_at, stages, conv_in, conv_mid, conv_out>>

-----------------------------------------------------------------------------
(* Characters and the str methods the program calls.                       *)

Digits == <<"0", "1", "2", "3", "4", "5", "6", "7", "8", "9">>

DecimalChars == {Digits[k] : k \in 1..10}

\* U+00B2 SUPERSCRIPT TWO: str.isdigit() is True for it, int() rejects it.
SUP2 == "sup2"

Whitespace == {" "}

\* c.isdigit() for one character
IsDigitChar(c) == c \in DecimalChars \cup {SUP2}

\* part.isdigit(): non-empty and every character a digit
str_isdigit(part) == Len(part) > 0 /\ \A k \in 1..Len(part) : IsDigitChar(part[k])

\* int(part) raises ValueError unless part is a decimal literal
int_raises(part) == ~(Len(part) > 0 /\ \A k \in 1..Len(part) : part[k] \in DecimalChars)

DigitValue(c) == CHOOSE d \in 0..9 : Digits[d + 1] = c

RECURSIVE PyInt(_)
\* int(part) for a decimal literal: leading zeros are accepted and dropped
PyInt(part) ==
    IF Len(part) = 0 THEN 0
    ELSE 10 * PyInt(SubSeq(part, 1, Len(part) - 1)) + DigitValue(part[Len(part)])

RECURSIVE PyStr(_)
\* the decimal text an f-string gives a non-negative int: no leading zeros
PyStr(n) ==
    IF n < 10 THEN <<Digits[n + 1]>>
    ELSE PyStr(n \div 10) \o <<Digits[(n % 10) + 1]>>

RECURSIVE split(_)
\* s.split('.')
split(s) ==
    IF \A k \in 1..Len(s) : s[k] # "." THEN <<s>>
    ELSE LET k == CHOOSE j \in 1..Len(s) : s[j] = "." /\ \A m \in 1..(j - 1) : s[m] # "."
         IN  <<SubSeq(s, 1, k - 1)>> \o split(SubSeq(s, k + 1, Len(s)))

RECURSIVE join(_)
\* '.'.join(parts)
join(parts) ==
    IF Len(parts) = 0 THEN <<>>
    ELSE IF Len(parts) = 1 THEN parts[1]
    ELSE parts[1] \o <<".">> \o join(Tail(parts))

RECURSIVE strip(_)
\* line.strip()
strip(line) ==
    IF Len(line) = 0 THEN line
    ELSE IF line[1] \in Whitespace THEN strip(Tail(line))
    ELSE IF line[Len(line)] \in Whitespace THEN strip(SubSeq(line, 1, Len(line) - 1))
    ELSE line

-----------------------------------------------------------------------------
(* Address conversion.                                                     *)

\* x << k and x >> k on non-negative ints
Shl(x, k) == x * (2 ^ k)

Shr(x, k) == x \div (2 ^ k)

\* x & 255
And255(x) == x % 256

\* lines 13-17 raise ValueError: not four parts, or a part int() rejects
ip_to_int_raises(ip) ==
    Len(split(ip)) # 4 \/ \E k \in 1..4 : int_raises(split(ip)[k])

\* line 17, for an ip on which lines 13-15 do not raise
ip_to_int(ip) ==
    LET parts == split(ip)
    IN  Shl(PyInt(parts[1]), 24) + Shl(PyInt(parts[2]), 16) + Shl(PyInt(parts[3]), 8) + PyInt(parts[4])

\* int_to_ip with the last octet masked by 127 instead of 255
int_to_ip_masked(ip_int) ==
    join(<<PyStr(And255(Shr(ip_int, 24))), PyStr(And255(Shr(ip_int, 16))), PyStr(And255(Shr(ip_int, 8))), PyStr(ip_int % 128)>>)

\* line 21
int_to_ip(ip_int) ==
    join(<<PyStr(And255(Shr(ip_int, 24))), PyStr(And255(Shr(ip_int, 16))), PyStr(And255(Shr(ip_int, 8))), PyStr(And255(ip_int))>>)

-----------------------------------------------------------------------------
(* Sorter.                                                                 *)

RECURSIVE Insert(_, _)
Insert(sorted, x) ==
    IF Len(sorted) = 0 THEN <<x>>
    ELSE IF x < sorted[1] THEN <<x>> \o sorted
    ELSE <<sorted[1]>> \o Insert(Tail(sorted), x)

RECURSIVE ListSort(_)
\* ip_ints.sort(): the ints in ascending order
ListSort(ints) ==
    IF Len(ints) = 0 THEN <<>>
    ELSE Insert(ListSort(SubSeq(ints, 1, Len(ints) - 1)), ints[Len(ints)])

\* lines 25-27
sort_ips(list) ==
    LET ip_ints == [k \in 1..Len(list) |-> ip_to_int(list[k])]
        ordered == ListSort(ip_ints)
    IN  [k \in 1..Len(ordered) |-> int_to_ip(ordered[k])]

-----------------------------------------------------------------------------
(* Range Filler.                                                           *)

\* the largest difference that is filled (line 56)
MaxDiff == 6

\* generate_ip_range with range(start_int, end_int): the end left out
generate_ip_range_open(start_ip, end_ip) ==
    LET start_int == ip_to_int(start_ip)
        end_int == ip_to_int(end_ip)
    IN  [k \in 1..(end_int - start_int) |-> int_to_ip(start_int + k - 1)]

\* generate_ip_range that returns the two ends and nothing between
generate_ip_range_ends(start_ip, end_ip) ==
    <<start_ip, end_ip>>

\* lines 31-34
generate_ip_range(start_ip, end_ip) ==
    LET start_int == ip_to_int(start_ip)
        end_int == ip_to_int(end_ip)
    IN  [k \in 1..(end_int + 1 - start_int) |-> int_to_ip(start_int + k - 1)]

\* the first three dot-separated parts, joined again: compared as text
network(ip) == join(SubSeq(split(ip), 1, 3))

\* line 56 with diff <= 7
same_segment_wide(current_ip, previous_ip, diff) ==
    network(current_ip) = network(previous_ip) /\ 0 < diff /\ diff <= MaxDiff + 1

\* line 56 without the comparison of the networks
same_segment_any_network(current_ip, previous_ip, diff) ==
    0 < diff /\ diff <= MaxDiff

\* line 56 with 0 <= diff
same_segment_with_equal(current_ip, previous_ip, diff) ==
    network(current_ip) = network(previous_ip) /\ 0 <= diff /\ diff <= MaxDiff

\* the condition of line 56
same_segment(current_ip, previous_ip, diff) ==
    network(current_ip) = network(previous_ip) /\ 0 < diff /\ diff <= MaxDiff

\* lines 60-63 and 73-76: what closing the segment appends to result
emit_segment(start_ip, end_ip) ==
    IF start_ip = end_ip THEN <<start_ip>>
    ELSE generate_ip_range(start_ip, end_ip)

\* one iteration of the loop of lines 47-70
process_step(st, current_ip) ==
    LET current_int == ip_to_int(current_ip)
        diff == current_int - st.previous_int
    IN  IF same_segment(current_ip, st.previous_ip, diff)
        THEN [st EXCEPT !.end_ip = current_ip,
                        !.previous_ip = current_ip,
                        !.previous_int = current_int]
        ELSE [result |-> st.result \o emit_segment(st.start_ip, st.end_ip),
              start_ip |-> current_ip,
              end_ip |-> current_ip,
              previous_ip |-> current_ip,
              previous_int |-> current_int]

RECURSIVE process_loop(_, _, _)
process_loop(st, list, i) ==
    IF i > Len(list) THEN st
    ELSE process_loop(process_step(st, list[i]), list, i + 1)

\* lines 38-45 and 72-78
process_ips(list) ==
    IF Len(list) = 0 THEN <<>>
    ELSE LET st0 == [result |-> <<>>,
                     start_ip |-> list[1],
                     end_ip |-> list[1],
                     previous_ip |-> list[1],
                     previous_int |-> ip_to_int(list[1])]
             st == process_loop(st0, list, 2)
         IN  st.result \o emit_segment(st.start_ip, st.end_ip)

-----------------------------------------------------------------------------
(* Reader.                                                                 *)

RECURSIVE check_parts(_, _)
\* all(part.isdigit() and 0 <= int(part) <= 255 for part in parts), from
\* part k on: "ok", "bad" at the first part that fails, "raise" when int()
\* raises on a part that passed isdigit()
check_parts(parts, k) ==
    IF k > Len(parts) THEN "ok"
    ELSE IF ~str_isdigit(parts[k]) THEN "bad"
    ELSE IF int_raises(parts[k]) THEN "raise"
    ELSE IF ~(0 <= PyInt(parts[k]) /\ PyInt(parts[k]) <= 255) THEN "bad"
    ELSE check_parts(parts, k + 1)

\* lines 86-93 for one line: "blank", "ok", "bad" or "raise"
check_line(line) ==
    LET ip == strip(line)
        parts == split(ip)
    IN  IF Len(ip) = 0 THEN "blank"
        ELSE IF Len(parts) # 4 THEN "bad"
        ELSE check_parts(parts, 1)

-----------------------------------------------------------------------------
(* The inputs.                                                             *)

\* longest input file, in lines
MaxLines == 3

\* longest address list handed to sort_ips
MaxLen == 3

\* most leading zeros of an octet of a sampled address string
MaxZeros == 1

Dotted(a, b, c, d) == join(<<PyStr(a), PyStr(b), PyStr(c), PyStr(d)>>)

RECURSIVE Zeros(_)
Zeros(n) == IF n = 0 THEN <<>> ELSE <<"0">> \o Zeros(n - 1)

\* the lines a file is made of: valid, blank, padded and malformed ones
Lines ==
    { Dotted(10, 0, 1, 1),
      Dotted(10, 0, 1, 4),
      <<" ">> \o Dotted(10, 0, 1, 9) \o <<" ">>,
      join(<<PyStr(10), PyStr(0), PyStr(1), <<"0", "4">> >>),
      <<>>,
      <<" ", " ">>,
      join(<<PyStr(1), PyStr(2), PyStr(3)>>),
      Dotted(999, 1, 1, 1),
      join(<<PyStr(1), PyStr(2), PyStr(3), <<"x">> >>),
      join(<<PyStr(1), PyStr(2), PyStr(3), <<SUP2>> >>) }

SeqsUpTo(S, n) == UNION {[1..m -> S] : m \in 0..n}

InputFiles ==
    {[status |-> "ok", lines |-> ls] : ls \in SeqsUpTo(Lines, MaxLines)}
        \cup {[status |-> "missing", lines |-> <<>>], [status |-> "unreadable", lines |-> <<>>]}

\* the address strings a list handed to sort_ips is made of: what the
\* Reader returns, two /24 networks, one string with a leading zero
Addresses ==
    { Dotted(10, 0, 1, 1), Dotted(10, 0, 1, 7), Dotted(10, 0, 1, 13), Dotted(10, 0, 1, 14),
      Dotted(10, 0, 1, 254), Dotted(10, 0, 2, 2), Dotted(10, 0, 2, 5),
      join(<<PyStr(10), PyStr(0), <<"0", "1">>, PyStr(7)>>) }

\* the octet texts of the sampled strings of the conversion round trip
OctetTexts == {Zeros(z) \o PyStr(v) : z \in 0..MaxZeros, v \in {0, 7, 10, 255}}

FirstOctetTexts == {Zeros(z) \o PyStr(v) : z \in 0..MaxZeros, v \in {0, 10, 127}}

SampleStrings ==
    {s \in {join(<<a, b, c, d>>) : a \in FirstOctetTexts, b \in {<<"0">>, <<"2", "5", "5">>}, c \in OctetTexts, d \in OctetTexts} :
        check_line(s) = "ok"}

SampleInts ==
    {Shl(a, 24) + Shl(b, 16) + Shl(c, 8) + d : a \in {0, 1, 10, 127}, b \in {0, 128, 255}, c \in {0, 1, 10, 128, 255}, d \in {0, 1, 9, 10, 99, 100, 128, 255}}

-----------------------------------------------------------------------------
(* main(): read, check, sort, fill, write.                                 *)

Idle ==
    /\ lineno = 1 /\ ips = <<>> /\ warnings = 0
    /\ ip_list = <<>> /\ sorted_ips = <<>> /\ result = <<>> /\ again = <<>>
    /\ written = <<>> /\ count = -1 /\ exit_code = -1 /\ exit_at = "none"

NoConv == conv_in = <<>> /\ conv_mid = <<>> /\ conv_out = <<>>

\* the state after parse_args (line 139)
Init ==
    /\ pc = "open"
    /\ input_file \in InputFiles
    /\ output_file \in {"none", "ok", "unwritable"}
    /\ stages = <<>>
    /\ Idle
    /\ NoConv

Exit(code, where) ==
    /\ pc' = "done"
    /\ exit_code' = code
    /\ exit_at' = where

\* read_ip_file, lines 83-84 and 94-99: open the file
OpenInput ==
    /\ pc = "open"
    /\ stages' = Append(stages, "read")
    /\ IF input_file.status = "ok"
       THEN pc' = "read" /\ UNCHANGED <<exit_code, exit_at>>
       ELSE Exit(1, "reader")
    /\ UNCHANGED <<input_file, output_file, lineno, ips, warnings, ip_list, sorted_ips, result, again, written, count, conv_in, conv_mid, conv_out>>

\* read_ip_file, lines 85-93 and 97-99: one line of the file
ReadLine ==
    /\ pc = "read"
    /\ lineno <= Len(input_file.lines)
    /\ LET line == input_file.lines[lineno]
           verdict == check_line(line)
       IN  /\ ips' = IF verdict = "ok" THEN Append(ips, strip(line)) ELSE ips
           /\ warnings' = IF verdict = "bad" THEN warnings + 1 ELSE warnings
           /\ IF verdict = "raise"
              THEN Exit(1, "reader") /\ UNCHANGED lineno
              ELSE lineno' = lineno + 1 /\ UNCHANGED <<pc, exit_code, exit_at>>
    /\ UNCHANGED <<input_file, output_file, ip_list, sorted_ips, result, again, written, count, stages, conv_in, conv_mid, conv_out>>

\* read_ip_file, line 101, and main, line 143
ReadReturn ==
    /\ pc = "read"
    /\ lineno > Len(input_file.lines)
    /\ ip_list' = ips
    /\ pc' = "check"
    /\ UNCHANGED <<input_file, output_file, lineno, ips, warnings, sorted_ips, result, again, written, count, exit_code, exit_at, stages, conv_in, conv_mid, conv_out>>

\* main, lines 145-147
CheckEmpty ==
    /\ pc = "check"
    /\ IF Len(ip_list) = 0
       THEN Exit(1, "main")
       ELSE pc' = "sort" /\ UNCHANGED <<exit_code, exit_at>>
    /\ UNCHANGED <<input_file, output_file, lineno, ips, warnings, ip_list, sorted_ips, result, again, written, count, stages, conv_in, conv_mid, conv_out>>

\* main, line 153
Sort ==
    /\ pc = "sort"
    /\ sorted_ips' = sort_ips(ip_list)
    /\ stages' = Append(stages, "sort")
    /\ pc' = "fill"
    /\ UNCHANGED <<input_file, output_file, lineno, ips, warnings, ip_list, result, again, written, count, exit_code, exit_at, conv_in, conv_mid, conv_out>>

\* main, line 158
Fill ==
    /\ pc = "fill"
    /\ result' = process_ips(sorted_ips)
    /\ stages' = Append(stages, "fill")
    /\ pc' = "write"
    /\ UNCHANGED <<input_file, output_file, lineno, ips, warnings, ip_list, sorted_ips, again, written, count, exit_code, exit_at, conv_in, conv_mid, conv_out>>

\* main, line 161: write_output, then the normal end of the process
Write ==
    /\ pc = "write"
    /\ stages' = Append(stages, "write")
    /\ IF output_file = "unwritable"
       THEN Exit(1, "writer") /\ UNCHANGED <<written, count>>
       ELSE written' = result /\ count' = Len(result) /\ Exit(0, "none")
    /\ UNCHANGED <<input_file, output_file, lineno, ips, warnings, ip_list, sorted_ips, result, again, conv_in, conv_mid, conv_out>>

Next == OpenInput \/ ReadLine \/ ReadReturn \/ CheckEmpty \/ Sort \/ Fill \/ Write

Spec == Init /\ [][Next]_vars

-----------------------------------------------------------------------------
(* sort_ips and process_ips on every list of valid addresses.              *)

InitFill ==
    /\ pc = "sort"
    /\ input_file = [status |-> "ok", lines |-> <<>>]
    /\ output_file = "none"
    /\ stages = <<"read">>
    /\ lineno = 1 /\ ips = <<>> /\ warnings = 0
    /\ ip_list \in SeqsUpTo(Addresses, MaxLen)
    /\ sorted_ips = <<>> /\ result = <<>> /\ again = <<>>
    /\ written = <<>> /\ count = -1 /\ exit_code = -1 /\ exit_at = "none"
    /\ NoConv

\* process_ips applied to its own result
Refill ==
    /\ pc = "write"
    /\ again' = process_ips(result)
    /\ pc' = "refilled"
    /\ UNCHANGED <<input_file, output_file, lineno, ips, warnings, ip_list, sorted_ips, result, written, count, exit_code, exit_at, stages, conv_in, conv_mid, conv_out>>

NextFill == Sort \/ Fill \/ Refill

SpecFill == InitFill /\ [][NextFill]_vars

-----------------------------------------------------------------------------
(* The two round trips of the address conversion.                          *)

InitConv ==
    /\ \/ pc = "conv_str" /\ conv_in \in SampleStrings
       \/ pc = "conv_int" /\ conv_in \in SampleInts
    /\ conv_mid = <<>> /\ conv_out = <<>>
    /\ input_file = [status |-> "ok", lines |-> <<>>]
    /\ output_file = "none"
    /\ stages = <<>>
    /\ Idle

ConvUnchanged == UNCHANGED <<input_file, output_file, lineno, ips, warnings, ip_list, sorted_ips, result, again, written, count, exit_code, exit_at, stages, conv_in>>

StrToInt ==
    /\ pc = "conv_str"
    /\ ~ip_to_int_raises(conv_in)
    /\ conv_mid' = ip_to_int(conv_in)
    /\ pc' = "conv_str_int"
    /\ UNCHANGED conv_out
    /\ ConvUnchanged

IntBackToStr ==
    /\ pc = "conv_str_int"
    /\ conv_out' = int_to_ip(conv_mid)
    /\ pc' = "conv_str_done"
    /\ UNCHANGED conv_mid
    /\ ConvUnchanged

IntToStr ==
    /\ pc = "conv_int"
    /\ conv_mid' = int_to_ip(conv_in)
    /\ pc' = "conv_int_str"
    /\ UNCHANGED conv_out
    /\ ConvUnchanged

StrBackToInt ==
    /\ pc = "conv_int_str"
    /\ ~ip_to_int_raises(conv_mid)
    /\ conv_out' = ip_to_int(conv_mid)
    /\ pc' = "conv_int_done"
    /\ UNCHANGED conv_mid
    /\ ConvUnchanged

NextConv == StrToInt \/ IntBackToStr \/ IntToStr \/ StrBackToInt

SpecConv == InitConv /\ [][NextConv]_vars

-----------------------------------------------------------------------------
(* What the properties are stated with: the value and the /24 of an        *)
(* address read off its octets, the runs of a sorted list.                 *)

OctetsOf(ip) == [k \in 1..4 |-> PyInt(split(ip)[k])]

Value(ip) == OctetsOf(ip)[1] * 16777216 + OctetsOf(ip)[2] * 65536 + OctetsOf(ip)[3] * 256 + OctetsOf(ip)[4]

SamePrefix(a, b) == \A k \in 1..3 : OctetsOf(a)[k] = OctetsOf(b)[k]

TextOf(v) == Dotted(v \div 16777216, (v \div 65536) % 256, (v \div 256) % 256, v % 256)

Values(list) == [k \in 1..Len(list) |-> Value(list[k])]

Ascending(list) == \A k \in 1..(Len(list) - 1) : Value(list[k]) <= Value(list[k + 1])

Count(list, v) == Cardinality({k \in 1..Len(list) : Value(list[k]) = v})

ValueSet(list) == {Value(list[k]) : k \in 1..Len(list)}

\* address i of L continues the run of address i - 1
Linked(L, i) ==
    /\ i > 1
    /\ SamePrefix(L[i - 1], L[i])
    /\ 0 < Value(L[i]) - Value(L[i - 1])
    /\ Value(L[i]) - Value(L[i - 1]) <= 6

\* the last index of the maximal run that starts at index s
RunEnd(L, s) ==
    CHOOSE e \in s..Len(L) :
        /\ \A j \in (s + 1)..e : Linked(L, j)
        /\ e = Len(L) \/ ~Linked(L, e + 1)

RunText(L, s) ==
    LET e == RunEnd(L, s)
    IN  IF e = s THEN <<L[s]>>
        ELSE [k \in 1..(Value(L[e]) - Value(L[s]) + 1) |-> TextOf(Value(L[s]) + k - 1)]

RECURSIVE RunsFrom(_, _)
RunsFrom(L, s) ==
    IF s > Len(L) THEN <<>>
    ELSE RunText(L, s) \o RunsFrom(L, RunEnd(L, s) + 1)

\* process_ips has returned
Filled == pc \in {"write", "refilled"}

\* C1: for a sorted list, process_ips returns the concatenation, in order, of
\* the maximal runs of addresses linked to their predecessor (same first three
\* octets, 0 < diff <= 6): a run of one address as that address, a longer run
\* as every value from its first to its last address.
C1_MaximalRuns ==
    Filled => /\ Ascending(sorted_ips)
              /\ result = RunsFrom(sorted_ips, 1)

\* C1 witness: the chain .1, .7, .13 has been filled to one run of 13 addresses
C1_ChainFilled ==
    /\ Filled
    /\ sorted_ips = <<Dotted(10, 0, 1, 1), Dotted(10, 0, 1, 7), Dotted(10, 0, 1, 13)>>
    /\ Len(result) = 13

\* C2: no output address lies strictly between two adjacent input addresses
\* that are in different /24 networks or more than 6 apart; every output
\* address that is no input address lies in the /24 of its nearest input
\* addresses below and above, which are at most 6 apart.
C2_NoFillAcross ==
    Filled =>
        LET L == sorted_ips
        IN  /\ \A i \in 1..(Len(L) - 1) :
                   (~SamePrefix(L[i], L[i + 1]) \/ Value(L[i + 1]) - Value(L[i]) > 6)
                       => \A k \in 1..Len(result) :
                              ~(Value(L[i]) < Value(result[k]) /\ Value(result[k]) < Value(L[i + 1]))
            /\ \A k \in 1..Len(result) :
                   Value(result[k]) \notin ValueSet(L)
                       => \E i \in 1..(Len(L) - 1) :
                              /\ Value(L[i]) < Value(result[k])
                              /\ Value(result[k]) < Value(L[i + 1])
                              /\ SamePrefix(L[i], result[k])
                              /\ SamePrefix(result[k], L[i + 1])
                              /\ Value(L[i + 1]) - Value(L[i]) <= 6

\* C2 witness: the gap of 4 across the /24 boundary was left open, next to a
\* gap of 3 that was filled
C2_BoundaryLeftOpen ==
    /\ Filled
    /\ sorted_ips = <<Dotted(10, 0, 1, 254), Dotted(10, 0, 2, 2), Dotted(10, 0, 2, 5)>>
    /\ result = <<Dotted(10, 0, 1, 254), Dotted(10, 0, 2, 2), Dotted(10, 0, 2, 3), Dotted(10, 0, 2, 4), Dotted(10, 0, 2, 5)>>

\* C3: an address that occurs k times in the input occurs k times in the
\* output, and an address added by gap-filling occurs once.
C3_DuplicatesKept ==
    Filled =>
        /\ \A v \in ValueSet(sorted_ips) : Count(result, v) = Count(sorted_ips, v)
        /\ \A v \in ValueSet(result) \ ValueSet(sorted_ips) : Count(result, v) = 1

\* C3 witness: a duplicate at the end of a filled run and one at its start
C3_DuplicateAtRunEnds ==
    /\ Filled
    /\ \/ sorted_ips = <<Dotted(10, 0, 2, 2), Dotted(10, 0, 2, 5), Dotted(10, 0, 2, 5)>>
       \/ sorted_ips = <<Dotted(10, 0, 2, 2), Dotted(10, 0, 2, 2), Dotted(10, 0, 2, 5)>>
    /\ Len(result) = 5

\* C6: the output is non-decreasing in value over its whole length, and two
\* neighbours of the output are 1 apart unless they are a segment boundary:
\* two adjacent input addresses that are not linked.
C6_OutputOrdered ==
    Filled =>
        \A k \in 1..(Len(result) - 1) :
            /\ Value(result[k]) <= Value(result[k + 1])
            /\ \/ Value(result[k + 1]) - Value(result[k]) = 1
               \/ \E i \in 2..Len(sorted_ips) :
                      /\ sorted_ips[i - 1] = result[k]
                      /\ sorted_ips[i] = result[k + 1]
                      /\ ~Linked(sorted_ips, i)

\* C6 witness: an output with a filled run of 7 and a segment boundary
C6_RunAndBoundary ==
    /\ Filled
    /\ sorted_ips = <<Dotted(10, 0, 1, 1), Dotted(10, 0, 1, 7), Dotted(10, 0, 1, 14)>>
    /\ Len(result) = 8

\* C10: process_ips applied to its own result returns that result.
C10_FillIdempotent ==
    pc = "refilled" => again = result

\* C10 witness: a result with a duplicate and a filled run has been filled
\* again
C10_RefilledRun ==
    /\ pc = "refilled"
    /\ sorted_ips = <<Dotted(10, 0, 1, 13), Dotted(10, 0, 1, 13), Dotted(10, 0, 1, 14)>>
    /\ Len(result) = 3
    /\ again = result

\* C9: sort_ips returns a list of the same length, ascending in value, with
\* the same multiset of values, and returns an ascending list unchanged.
C9_SortContract ==
    pc \in {"fill", "write", "refilled"} =>
        /\ Len(sorted_ips) = Len(ip_list)
        /\ Ascending(sorted_ips)
        /\ \A v \in ValueSet(ip_list) \cup ValueSet(sorted_ips) : Count(sorted_ips, v) = Count(ip_list, v)
        /\ Ascending(ip_list) => sorted_ips = ip_list

\* what the Reader accepts: four parts, each all decimal digits, in 0..255
ValidLine(line) ==
    LET parts == split(strip(line))
    IN  /\ Len(parts) = 4
        /\ \A k \in 1..4 : /\ Len(parts[k]) > 0
                           /\ \A j \in 1..Len(parts[k]) : parts[k][j] \in DecimalChars
                           /\ PyInt(parts[k]) <= 255

BlankLine(line) == \A k \in 1..Len(line) : line[k] \in Whitespace

Malformed(line) == ~BlankLine(line) /\ ~ValidLine(line)

Kept(lines) ==
    LET valid == SelectSeq(lines, ValidLine)
    IN  [k \in 1..Len(valid) |-> strip(valid[k])]

\* C4: int_to_ip(ip_to_int(s)) = s for every string s the Reader accepts.
C4_StringRoundTrip ==
    pc = "conv_str_done" => (ValidLine(conv_in) => conv_out = conv_in)

\* C5: ip_to_int(int_to_ip(x)) = x for every 32-bit x, and int_to_ip(x) has
\* four decimal parts, each in 0..255.
C5_IntRoundTrip ==
    /\ pc \in {"conv_int_str", "conv_int_done"} => ValidLine(conv_mid)
    /\ pc = "conv_int_done" => conv_out = conv_in

\* C5 witness: 127.255.255.255 has been converted to text and back
C5_LargestSample ==
    /\ pc = "conv_int_done"
    /\ conv_in = 2147483647
    /\ conv_mid = Dotted(127, 255, 255, 255)
    /\ conv_out = conv_in

\* C7: a malformed line never ends the process: it is discarded with one
\* warning and reading goes on; blank lines give no warning; the list read
\* is the subsequence of the valid lines, in input order.
C7_MalformedRecoverable ==
    input_file.status = "ok" =>
        /\ exit_at # "reader"
        /\ pc = "read" =>
               /\ ips = Kept(SubSeq(input_file.lines, 1, lineno - 1))
               /\ warnings = Len(SelectSeq(SubSeq(input_file.lines, 1, lineno - 1), Malformed))
        /\ pc \in {"check", "sort", "fill", "write"} =>
               /\ ip_list = Kept(input_file.lines)
               /\ warnings = Len(SelectSeq(input_file.lines, Malformed))

\* one of the four fatal conditions of the run
Fatal ==
    \/ input_file.status \in {"missing", "unreadable"}
    \/ Kept(input_file.lines) = <<>>
    \/ output_file = "unwritable"

\* C8: the exit status is 1 exactly on a missing or unreadable input file, an
\* empty validated list or an unwritable output file, and 0 otherwise; the
\* stages run in the order read, sort, fill, write; on an empty validated
\* list nothing runs after the Reader and nothing is written.
C8_ExitStatus ==
    /\ \E n \in 0..4 : stages = SubSeq(<<"read", "sort", "fill", "write">>, 1, n)
    /\ pc = "done" =>
           /\ exit_code \in {0, 1}
           /\ exit_code = 1 <=> Fatal
           /\ (input_file.status = "ok" /\ Kept(input_file.lines) = <<>>)
                  => (stages = <<"read">> /\ written = <<>> /\ count = -1)

=============================================================================
